---- MODULE Spec2Model ----
(***************************************************************************)
(* Model of accounts-analysis.py: the per-account ledger (TRANSACTIONS),   *)
(* the checkpoints (CHECKPOINTS), the backward balance reconstruction and  *)
(* the checkpoint health check, as run by process_statements.              *)
(*                                                                         *)
(* Dates are calendar days, written as the ordinal of the day in a         *)
(* non-leap year (1 = 1 January, 32 = 1 February).  Amounts and balances   *)
(* are counted in units of 0.00001 currency unit, the tolerance of the     *)
(* health check; arithmetic on them is exact.                              *)
(***************************************************************************)
EXTENDS Integers, Sequences, FiniteSets, TLC

VARIABLES
    tz,           \* offset of the local time zone from UTC, in hours
    ledger,       \* account id -> rows of table TRANSACTIONS of db/account_<id>.db
    checkpoints,  \* account id -> rows of table CHECKPOINTS of db/account_<id>.db
    pc,           \* "idle" | "running" | "finished" | "crashed"
    statements,   \* the AccountStatements parse_file returned for this run
    done,         \* how many of them process_statements has processed
    dry_run,      \* the --dry-run flag of this run
    analysis,     \* what the processing of the last account computed
    outcomes,     \* per processed account of this run: the exception it ended
                  \* with, and whether update_checkpoints inserted a row
    again,        \* this run repeats the previous run's file, straight after it
    prev_outcomes, \* outcomes of the previous run, when again
    connections   \* the accounts whose database connection is open

vars == <<tz, ledger, checkpoints, pc, statements, done, dry_run, analysis,
          outcomes, again, prev_outcomes, connections>>

-----------------------------------------------------------------------------
(* Program constants *)

MONTHS_IN_YEAR == 12
DAYS_IN_MONTH == 31
\* abs(checked_balance - expected_balance) <= 0.00001
EPSILON == 1
\* Python's None and SQL's NULL
None == -1

-----------------------------------------------------------------------------
(* Bounds of the model *)

\* the most transactions one statement of a file carries
MaxTransactions == 1

MonthLengths == <<31, 28, 31, 30, 31, 30, 31, 31, 30, 31, 30, 31>>

\* the days transactions are dated: the last day of January and the days after
FirstDay == MonthLengths[1]
TransactionDates == FirstDay .. (FirstDay + 2)
\* the days statements end
EndDates == (FirstDay + 1) .. (FirstDay + 2)
Ids == {1, 2}
Amounts == {1, 3}
Balances == {10}
\* a label is the sequence of its characters
Labels == {<<"a">>}
Accounts == {1, 2}
\* the accounts of the files that hold one statement
SingleAccounts == {1}
TimeZones == {-5, 0, 1}

\* the files that hold the statements of several accounts: their time zone,
\* the days their transactions are dated and their statements end, their
\* labels (one with an apostrophe) and their amounts
FilesTimeZones == {0}
FilesDates == FirstDay .. (FirstDay + 1)
FilesEndDates == {FirstDay + 1}
FilesLabels == Labels \cup {<<"l", "'">>}
FilesAmounts == {1}

-----------------------------------------------------------------------------
(* The calendar: datetime's month and day attributes *)

RECURSIVE DaysBefore(_)
DaysBefore(m) == IF m = 1 THEN 0 ELSE DaysBefore(m - 1) + MonthLengths[m - 1]

month(d) ==
    CHOOSE m \in 1 .. MONTHS_IN_YEAR :
        DaysBefore(m) < d /\ d <= DaysBefore(m) + MonthLengths[m]

day(d) == d - DaysBefore(month(d))

-----------------------------------------------------------------------------
(* Epoch encoding of a day *)

SecondsPerHour == 60 * 60
SecondsPerDay == 24 * SecondsPerHour

\* date.strftime('%s'): the epoch of local midnight of day d
strftime_s(d) == d * SecondsPerDay - tz * SecondsPerHour

\* datetime.datetime.utcfromtimestamp(e): the UTC day holding epoch e (the
\* time of day is dropped by Operation.__init__)
utcfromtimestamp(e) == e \div SecondsPerDay

\* date.strftime("%d/%m/%Y"): the day and the month (one year is modelled)
strftime_dmy(d) == <<day(d), month(d)>>

-----------------------------------------------------------------------------
(* class Operation, class AccountStatement *)

Operation(operation_id, date, label, amount) ==
    [id |-> operation_id, date |-> date, label |-> label, value |-> amount]

\* AccountStatement.operations is a dict: here the sequence of its entries
\* [key, ops] in insertion order
AccountStatement(account_id) ==
    [account_id |-> account_id, operations |-> <<>>,
     last_date |-> None, last_balance |-> None]

HasKey(operations, date) ==
    \E i \in 1 .. Len(operations) : operations[i].key = date

Get(operations, date) ==
    operations[CHOOSE i \in 1 .. Len(operations) : operations[i].key = date].ops

add(statement, operation) ==
    LET ops == statement.operations
        withKey == IF HasKey(ops, operation.date)
                   THEN ops
                   ELSE Append(ops, [key |-> operation.date, ops |-> <<>>])
    IN [statement EXCEPT !.operations =
           [i \in 1 .. Len(withKey) |->
               IF withKey[i].key = operation.date
               THEN [withKey[i] EXCEPT !.ops = Append(@, operation)]
               ELSE withKey[i]]]

get_date_boundaries(statement) ==
    LET ops == statement.operations
    IN IF Len(ops) > 0
       THEN [min_date |-> ops[Len(ops)].key, max_date |-> ops[1].key]
       ELSE [min_date |-> None, max_date |-> None]

operations_count(statement, date) ==
    IF Len(statement.operations) > 0 /\ HasKey(statement.operations, date)
    THEN Len(Get(statement.operations, date))
    ELSE 0

\* the operations of a statement in the order "for opDate in operations:
\* for op in operations[opDate]" visits them
RECURSIVE OperationsInOrder(_)
OperationsInOrder(operations) ==
    IF operations = <<>> THEN <<>>
    ELSE Head(operations).ops \o OperationsInOrder(Tail(operations))

-----------------------------------------------------------------------------
(* parse_ofx *)

RECURSIVE AddAll(_, _)
AddAll(statement, transactions) ==
    IF transactions = <<>> THEN statement
    ELSE AddAll(add(statement,
                    Operation(Head(transactions).id, Head(transactions).date,
                              Head(transactions).memo, Head(transactions).amount)),
                Tail(transactions))

\* one account of the OFX file: [account_id, end_date, balance, transactions]
parse_account(account) ==
    AddAll([AccountStatement(account.account_id) EXCEPT
               !.last_date = account.end_date,
               !.last_balance = account.balance],
           account.transactions)

parse_ofx(ofx) == [i \in 1 .. Len(ofx) |-> parse_account(ofx[i])]

-----------------------------------------------------------------------------
(* The ledger store: tables TRANSACTIONS and CHECKPOINTS *)

TransactionRow(op) ==
    [id |-> op.id, date |-> strftime_dmy(op.date),
     date_epoch |-> strftime_s(op.date), label |-> op.label, amount |-> op.value]

\* as InsertTransaction, with INSERT OR REPLACE
InsertOrReplaceTransaction(rows, op) ==
    {r \in rows : r.id /= op.id} \cup {TransactionRow(op)}

\* INSERT INTO TRANSACTIONS ... ON CONFLICT(ID) DO NOTHING
InsertTransaction(rows, op) ==
    IF \E r \in rows : r.id = op.id THEN rows ELSE rows \cup {TransactionRow(op)}

\* the request is built by concatenation, with op.label between single
\* quotes: an apostrophe in the label (labels here hold one at most) ends the
\* SQL string early and connection.execute raises sqlite3.OperationalError
SyntaxError(op) == \E i \in 1 .. Len(op.label) : op.label[i] = "'"

\* the loop of write_operations_in_database: the rows of the connection's
\* open transaction, and whether an execute raised
RECURSIVE InsertAll(_, _)
InsertAll(rows, ops) ==
    IF ops = <<>> THEN [rows |-> rows, raised |-> FALSE]
    ELSE IF SyntaxError(Head(ops)) THEN [rows |-> rows, raised |-> TRUE]
    ELSE InsertAll(InsertTransaction(rows, Head(ops)), Tail(ops))

\* [rows, raised]; connection.commit() is reached when nothing raised
write_operations_in_database(history, rows) ==
    InsertAll(rows, OperationsInOrder(history.operations))

\* SELECT ... FROM TRANSACTIONS ORDER BY DATE_EPOCH DESC (rows of one epoch
\* in the order of their ids)
RECURSIVE OrderByDateEpochDesc(_)
OrderByDateEpochDesc(rows) ==
    IF rows = {} THEN <<>>
    ELSE LET first == CHOOSE r \in rows : \A s \in rows :
                          \/ r.date_epoch > s.date_epoch
                          \/ r.date_epoch = s.date_epoch /\ r.id <= s.id
         IN <<first>> \o OrderByDateEpochDesc(rows \ {first})

RECURSIVE AddRows(_, _)
AddRows(statement, cursor) ==
    IF cursor = <<>> THEN statement
    ELSE AddRows(add(statement,
                     Operation(Head(cursor).id,
                               utcfromtimestamp(Head(cursor).date_epoch),
                               Head(cursor).label, Head(cursor).amount)),
                 Tail(cursor))

read_transactions_from_database(account_id, rows) ==
    AddRows(AccountStatement(account_id), OrderByDateEpochDesc(rows))

update_statements_details(new_history, whole_history) ==
    [whole_history EXCEPT !.last_date = new_history.last_date,
                          !.last_balance = new_history.last_balance]

\* SELECT COUNT(ID) FROM TRANSACTIONS WHERE DATE_EPOCH = <epoch of last_date>
get_last_date_transactions_count(acc_statement, rows) ==
    Cardinality({r \in rows : r.date_epoch = strftime_s(acc_statement.last_date)})

\* as update_checkpoints, with INSERT OR REPLACE
update_checkpoints_replace(acc_statement, last_date_transactions_count, cps) ==
    {c \in cps : c.date_epoch /= strftime_s(acc_statement.last_date)}
        \cup {[date_epoch |-> strftime_s(acc_statement.last_date),
                date |-> strftime_dmy(acc_statement.last_date),
                balance |-> acc_statement.last_balance,
                transactions_count |-> last_date_transactions_count]}

\* as update_checkpoints, inserting nothing for a day without transactions
update_checkpoints_nonempty(acc_statement, last_date_transactions_count, cps) ==
    IF last_date_transactions_count = 0
    THEN cps
    ELSE update_checkpoints_replace(acc_statement,
                                    last_date_transactions_count, cps)

\* INSERT INTO CHECKPOINTS ... ON CONFLICT(DATE_EPOCH) DO NOTHING
update_checkpoints(acc_statement, last_date_transactions_count, cps) ==
    IF \E c \in cps : c.date_epoch = strftime_s(acc_statement.last_date)
    THEN cps
    ELSE cps \cup {[date_epoch |-> strftime_s(acc_statement.last_date),
                    date |-> strftime_dmy(acc_statement.last_date),
                    balance |-> acc_statement.last_balance,
                    transactions_count |-> last_date_transactions_count]}

-----------------------------------------------------------------------------
(* compute_balance_evolution *)

RECURSIVE SubtractOperations(_, _)
SubtractOperations(current_balance, ops) ==
    IF ops = <<>> THEN current_balance
    ELSE SubtractOperations(current_balance - Head(ops).value, Tail(ops))

\* one turn of "while current_date >= min_date"; w carries the loop's locals
\* and balance_over_time, a dict, as the sequence of its entries in
\* insertion order
RECURSIVE BalanceWalk(_, _, _)
BalanceWalk(account_statement, min_date, w) ==
    IF ~(w.current_date >= min_date) THEN w
    ELSE LET Recorded(current_balance) ==
                 BalanceWalk(account_statement, min_date,
                    [current_date |-> w.current_date - 1,
                     current_balance |-> current_balance,
                     balance_over_time |->
                         Append(w.balance_over_time,
                                [date |-> w.current_date,
                                 balance |-> current_balance]),
                     min_balance |-> IF current_balance < w.min_balance
                                     THEN current_balance ELSE w.min_balance,
                     min_balance_date |-> IF current_balance < w.min_balance
                                          THEN w.current_date
                                          ELSE w.min_balance_date,
                     max_balance |-> IF current_balance > w.max_balance
                                     THEN current_balance ELSE w.max_balance,
                     max_balance_date |-> IF current_balance > w.max_balance
                                          THEN w.current_date
                                          ELSE w.max_balance_date])
         IN Recorded(IF HasKey(account_statement.operations, w.current_date)
                     THEN SubtractOperations(w.current_balance,
                              Get(account_statement.operations, w.current_date))
                     ELSE w.current_balance)

\* the reconstruction of compute_balance_evolution, before balance_debug and
\* balance_health_check
compute_balance_evolution(account_statement) ==
    LET Returned(min_date, w) ==
            [balance_over_time |-> w.balance_over_time,
             min_date |-> min_date, max_date |-> account_statement.last_date,
             min_balance |-> w.min_balance,
             min_balance_date |-> w.min_balance_date,
             max_balance |-> w.max_balance,
             max_balance_date |-> w.max_balance_date]
        Walked(min_date) ==
            Returned(min_date,
                BalanceWalk(account_statement, min_date,
                    [current_date |-> account_statement.last_date,
                     current_balance |-> account_statement.last_balance,
                     balance_over_time |-> <<>>,
                     min_balance |-> account_statement.last_balance,
                     min_balance_date |-> account_statement.last_date,
                     max_balance |-> account_statement.last_balance,
                     max_balance_date |-> account_statement.last_date]))
    IN Walked(get_date_boundaries(account_statement).min_date)

-----------------------------------------------------------------------------
(* check_balance_in_checkpoints, balance_health_check *)

\* as check_balance_in_checkpoints, with lt_transaction_count taken as <=
check_balance_in_checkpoints_le(date, expected_balance, expected_transaction_count, cps) ==
    LET found == {c \in cps : c.date_epoch = strftime_s(date)}
    IN IF found = {}
       THEN [coherent |-> TRUE, found |-> FALSE,
             checked_balance |-> None, checked_transaction_count |-> None]
       ELSE LET row == CHOOSE c \in found : TRUE
                diff == row.balance - expected_balance
                eq_balance == (IF diff < 0 THEN -diff ELSE diff) <= EPSILON
                eq_transaction_count ==
                    row.transactions_count = expected_transaction_count
                lt_transaction_count ==
                    row.transactions_count <= expected_transaction_count
            IN [coherent |-> (eq_transaction_count /\ eq_balance)
                                \/ lt_transaction_count,
                found |-> TRUE,
                checked_balance |-> row.balance,
                checked_transaction_count |-> row.transactions_count]

check_balance_in_checkpoints(date, expected_balance, expected_transaction_count, cps) ==
    LET found == {c \in cps : c.date_epoch = strftime_s(date)}
    IN IF found = {}
       THEN [coherent |-> TRUE, found |-> FALSE,
             checked_balance |-> None, checked_transaction_count |-> None]
       ELSE LET row == CHOOSE c \in found : TRUE
                checked_balance == row.balance
                checked_transaction_count == row.transactions_count
                diff == checked_balance - expected_balance
                eq_balance == (IF diff < 0 THEN -diff ELSE diff) <= EPSILON
                eq_transaction_count ==
                    \/ /\ checked_transaction_count /= None
                       /\ checked_transaction_count = expected_transaction_count
                    \/ checked_transaction_count = None
                lt_transaction_count ==
                    /\ checked_transaction_count /= None
                    /\ checked_transaction_count < expected_transaction_count
            IN [coherent |-> (eq_transaction_count /\ eq_balance)
                                \/ lt_transaction_count,
                found |-> TRUE,
                checked_balance |-> checked_balance,
                checked_transaction_count |-> checked_transaction_count]

\* "for date in balance_over_time": the look-ups made, in order, up to and
\* including the one that raises
RECURSIVE HealthWalk(_, _, _, _)
HealthWalk(acc_statement, balance_over_time, cps, lookups) ==
    IF balance_over_time = <<>> THEN [raised |-> FALSE, lookups |-> lookups]
    ELSE LET date == Head(balance_over_time).date
             balance == Head(balance_over_time).balance
             Seen(transaction_count, c) ==
                 Append(lookups,
                     [date |-> date, balance |-> balance,
                      transaction_count |-> transaction_count,
                      found |-> c.found,
                      checked_balance |-> c.checked_balance,
                      checked_transaction_count |-> c.checked_transaction_count,
                      coherent |-> c.coherent])
             Checked(coherent_with_checkpoint, seen) ==
                 IF ~coherent_with_checkpoint
                 THEN [raised |-> TRUE, lookups |-> seen]
                 ELSE HealthWalk(acc_statement, Tail(balance_over_time), cps, seen)
             LookedUp(transaction_count, c) ==
                 Checked(c.coherent, Seen(transaction_count, c))
             Counted(transaction_count) ==
                 LookedUp(transaction_count,
                     check_balance_in_checkpoints(date, balance,
                                                  transaction_count, cps))
         IN Counted(operations_count(acc_statement, date - 1))

\* as balance_health_check, reporting a mismatch without raising
balance_health_check_no_raise(acc_statement, balance_over_time, cps) ==
    [raised |-> FALSE,
     lookups |-> HealthWalk(acc_statement, balance_over_time, cps, <<>>).lookups]

\* as balance_health_check, going through the dates from the earliest
balance_health_check_ascending(acc_statement, balance_over_time, cps) ==
    HealthWalk(acc_statement,
               [i \in 1 .. Len(balance_over_time) |->
                   balance_over_time[Len(balance_over_time) + 1 - i]],
               cps, <<>>)

balance_health_check(acc_statement, balance_over_time, cps) ==
    HealthWalk(acc_statement, balance_over_time, cps, <<>>)

-----------------------------------------------------------------------------
(* compute_balance_compared *)

\* as calculate_month_difference, counting spans of DAYS_IN_MONTH days
calculate_month_difference_days(last_date, current_date) ==
    (last_date - current_date) \div DAYS_IN_MONTH

\* relativedelta(last_date, current_date.replace(day=1)): whole months from
\* the first day of current_date's month to last_date (both in one year)
calculate_month_difference(last_date, current_date) ==
    month(last_date) - month(current_date)

\* a cell of the grid: {} for None, {b} for balance b
EmptyLine == [i \in 1 .. (DAYS_IN_MONTH + 1) |-> {}]

RECURSIVE Grow(_, _)
Grow(balance_compared, month_diff) ==
    IF Len(balance_compared) <= month_diff
    THEN Grow(Append(balance_compared, EmptyLine), month_diff)
    ELSE balance_compared

\* list index i of Python is index i + 1 here
RECURSIVE CompareWalk(_, _, _)
CompareWalk(balance, last_date, balance_compared) ==
    IF balance = <<>> THEN balance_compared
    ELSE LET balance_date == Head(balance).date
             month_diff == calculate_month_difference(last_date, balance_date)
             grown == Grow(balance_compared, month_diff)
         IN CompareWalk(Tail(balance), last_date,
               [grown EXCEPT ![month_diff + 1][day(balance_date) + 1] =
                                 {Head(balance).balance}])

compute_balance_compared(balance, last_date) ==
    CompareWalk(balance, last_date, <<>>)

-----------------------------------------------------------------------------
(* analyse_operations: the reconstruction, the health check, and the         *)
(* exceptions of the drawing functions.  No account is flagged as a savings *)
(* account by the configuration.                                            *)

\* as Uncaught, were "except ValueError" missing
UncaughtValueError ==
    {"StopIteration", "ZeroDivisionError", "TypeError", "OperationalError",
     "ValueError"}

\* the exceptions prepare_and_analyse_history does not catch
Uncaught == {"StopIteration", "ZeroDivisionError", "TypeError", "OperationalError"}

NoAnalysis ==
    [reconstructed |-> FALSE, balance_over_time |-> <<>>, lookups |-> <<>>,
     min_date |-> None,
     min_balance |-> None, min_balance_date |-> None,
     max_balance |-> None, max_balance_date |-> None,
     balance_compared |-> <<>>, exception |-> ""]

\* draw_balance_evolution: balance[next(iter(balance))] of an empty dict
draw_balance_evolution(balance) ==
    IF balance = <<>> THEN "StopIteration" ELSE ""

\* draw_balance_comparison: a = ... / (len(balance_compared) - 1)
draw_balance_comparison(balance_compared) ==
    IF Len(balance_compared) - 1 = 0 THEN "ZeroDivisionError" ELSE ""

analyse_operations(statement, cps) ==
    IF Len(statement.operations) > 0
    THEN LET Analysed(e, h, drawn, balance_compared) ==
                 [reconstructed |-> TRUE,
                  balance_over_time |-> e.balance_over_time,
                  lookups |-> h.lookups,
                  min_date |-> e.min_date,
                  min_balance |-> e.min_balance,
                  min_balance_date |-> e.min_balance_date,
                  max_balance |-> e.max_balance,
                  max_balance_date |-> e.max_balance_date,
                  balance_compared |-> IF h.raised \/ drawn /= "" THEN <<>>
                                       ELSE balance_compared,
                  exception |-> IF h.raised THEN "ValueError"
                                ELSE IF drawn /= "" THEN drawn
                                ELSE draw_balance_comparison(balance_compared)]
             Reconstructed(e) ==
                 Analysed(e,
                     balance_health_check(statement, e.balance_over_time, cps),
                     draw_balance_evolution(e.balance_over_time),
                     compute_balance_compared(e.balance_over_time,
                                              statement.last_date))
         IN Reconstructed(compute_balance_evolution(statement))
    ELSE NoAnalysis

\* search_operations_in_database: op.debug() lacks its argument
search_operations_in_database(history, rows) ==
    IF \E i \in 1 .. Len(OperationsInOrder(history.operations)) :
           \A r \in rows : r.id /= OperationsInOrder(history.operations)[i].id
    THEN "TypeError" ELSE ""

\* [rows, pending, cps, wrote, analysis]: the rows of TRANSACTIONS that are
\* committed, those of the connection's transaction, the rows of CHECKPOINTS,
\* whether update_checkpoints inserted one, and what was analysed

\* as prepare_and_analyse_history, reading the ledger before the merge
prepare_and_analyse_history_stale(new_statements, rows, cps, dry_run_mode) ==
    LET Ended(written, a, updated) ==
            [rows |-> written, pending |-> written,
             cps |-> IF a.exception = "" THEN updated ELSE cps,
             wrote |-> a.exception = "" /\ updated /= cps,
             analysis |-> a]
        Read(written, whole_statements) ==
            Ended(written,
                  analyse_operations(whole_statements, cps),
                  update_checkpoints(whole_statements,
                      get_last_date_transactions_count(whole_statements,
                                                       rows),
                      cps))
        Written(w) ==
            IF w.raised
            THEN [rows |-> rows, pending |-> w.rows, cps |-> cps,
                  wrote |-> FALSE,
                  analysis |-> [NoAnalysis EXCEPT
                                   !.exception = "OperationalError"]]
            ELSE Read(w.rows,
                      update_statements_details(new_statements,
                          read_transactions_from_database(
                              new_statements.account_id, rows)))
    IN IF dry_run_mode
       THEN [rows |-> rows, pending |-> rows, cps |-> cps, wrote |-> FALSE,
             analysis |-> [NoAnalysis EXCEPT !.exception =
                              search_operations_in_database(new_statements, rows)]]
       ELSE Written(write_operations_in_database(new_statements, rows))

\* as prepare_and_analyse_history, undoing the merge when the health check
\* raises
prepare_and_analyse_history_undone(new_statements, rows, cps, dry_run_mode) ==
    LET Ended(written, a, updated) ==
            [rows |-> IF a.exception = "ValueError" THEN rows ELSE written,
             pending |-> IF a.exception = "ValueError" THEN rows ELSE written,
             cps |-> IF a.exception = "" THEN updated ELSE cps,
             wrote |-> a.exception = "" /\ updated /= cps,
             analysis |-> a]
        Read(written, whole_statements) ==
            Ended(written,
                  analyse_operations(whole_statements, cps),
                  update_checkpoints(whole_statements,
                      get_last_date_transactions_count(whole_statements,
                                                       written),
                      cps))
        Written(w) ==
            IF w.raised
            THEN [rows |-> rows, pending |-> w.rows, cps |-> cps,
                  wrote |-> FALSE,
                  analysis |-> [NoAnalysis EXCEPT
                                   !.exception = "OperationalError"]]
            ELSE Read(w.rows,
                      update_statements_details(new_statements,
                          read_transactions_from_database(
                              new_statements.account_id, w.rows)))
    IN IF dry_run_mode
       THEN [rows |-> rows, pending |-> rows, cps |-> cps, wrote |-> FALSE,
             analysis |-> [NoAnalysis EXCEPT !.exception =
                              search_operations_in_database(new_statements, rows)]]
       ELSE Written(write_operations_in_database(new_statements, rows))

\* as prepare_and_analyse_history, without the test of dry_run_mode
prepare_and_analyse_history_wet(new_statements, rows, cps, dry_run_mode) ==
    prepare_and_analyse_history_stale(new_statements, rows, cps, FALSE)

prepare_and_analyse_history(new_statements, rows, cps, dry_run_mode) ==
    LET Ended(written, a, updated) ==
            [rows |-> written, pending |-> written,
             cps |-> IF a.exception = "" THEN updated ELSE cps,
             wrote |-> a.exception = "" /\ updated /= cps,
             analysis |-> a]
        Read(written, whole_statements) ==
            Ended(written,
                  analyse_operations(whole_statements, cps),
                  update_checkpoints(whole_statements,
                      get_last_date_transactions_count(whole_statements,
                                                       written),
                      cps))
        Written(w) ==
            IF w.raised
            THEN [rows |-> rows, pending |-> w.rows, cps |-> cps,
                  wrote |-> FALSE,
                  analysis |-> [NoAnalysis EXCEPT
                                   !.exception = "OperationalError"]]
            ELSE Read(w.rows,
                      update_statements_details(new_statements,
                          read_transactions_from_database(
                              new_statements.account_id, w.rows)))
    IN IF dry_run_mode
       THEN [rows |-> rows, pending |-> rows, cps |-> cps, wrote |-> FALSE,
             analysis |-> [NoAnalysis EXCEPT !.exception =
                              search_operations_in_database(new_statements, rows)]]
       ELSE Written(write_operations_in_database(new_statements, rows))

\* as with_connection, committing whatever the block ended with
with_connection_commit(r) == r.pending

\* "with open_database_connection(...) as connection": leaving the block
\* commits, or rolls back when an exception leaves it; it does not close the
\* connection
with_connection(r) ==
    IF r.analysis.exception \in Uncaught THEN r.rows ELSE r.pending

-----------------------------------------------------------------------------
(* The files imported *)

Transactions == [id : Ids, date : TransactionDates, memo : Labels, amount : Amounts]

\* the transactions of a statement: at most MaxTransactions, of distinct ids,
\* listed by id
RECURSIVE ById(_)
ById(ts) ==
    IF ts = {} THEN <<>>
    ELSE LET t == CHOOSE x \in ts : \A y \in ts : x.id <= y.id
         IN <<t>> \o ById(ts \ {t})

TransactionLists ==
    {ById(ts) : ts \in {x \in SUBSET Transactions :
                           /\ Cardinality(x) <= MaxTransactions
                           /\ \A t, u \in x : t.id = u.id => t = u}}

OfxAccounts ==
    [account_id : SingleAccounts, end_date : EndDates, balance : Balances,
     transactions : TransactionLists]

\* an OFX file with one account
OfxFiles == {<<a>> : a \in OfxAccounts}

\* the transactions of a statement of a file of several accounts: of distinct
\* ids, listed by id
SharedTransactions ==
    [id : Ids, date : FilesDates, memo : FilesLabels, amount : FilesAmounts]

SharedLists ==
    {ById(ts) : ts \in {x \in SUBSET SharedTransactions :
                           \A t, u \in x : t.id = u.id => t = u}}

SharedAccounts ==
    [account_id : Accounts, end_date : FilesEndDates, balance : Balances,
     transactions : SharedLists]

\* an OFX file with one account or two, listed by account id; a transaction
\* id occurs once in a file
SharedFiles ==
    {<<a>> : a \in SharedAccounts}
        \cup {<<a, b>> : <<a, b>> \in
                 {x \in SharedAccounts \X SharedAccounts :
                     /\ x[1].account_id < x[2].account_id
                     /\ \A i \in 1 .. Len(x[1].transactions),
                           j \in 1 .. Len(x[2].transactions) :
                            x[1].transactions[i].id /= x[2].transactions[j].id}}

-----------------------------------------------------------------------------
(* The runs of the program *)

Init ==
    /\ tz \in TimeZones
    /\ ledger = [a \in Accounts |-> {}]
    /\ checkpoints = [a \in Accounts |-> {}]
    /\ pc = "idle"
    /\ statements = <<>>
    /\ done = 0
    /\ dry_run = FALSE
    /\ analysis = NoAnalysis
    /\ outcomes = <<>>
    /\ again = FALSE
    /\ prev_outcomes = <<>>
    /\ connections = {}

\* main: parse_file, then process_statements starts
Start(ofx, dry_run_mode) ==
    /\ pc = "idle"
    /\ pc' = "running"
    /\ statements' = parse_ofx(ofx)
    /\ dry_run' = dry_run_mode
    /\ UNCHANGED <<tz, ledger, checkpoints, done, analysis, outcomes, again,
                   prev_outcomes, connections>>

\* one turn of the loop of process_statements
ProcessAccount ==
    /\ pc = "running"
    /\ done < Len(statements)
    /\ LET new_account_statement == statements[done + 1]
           a == new_account_statement.account_id
           Ran(r) ==
               /\ ledger' = [ledger EXCEPT ![a] = with_connection(r)]
               /\ checkpoints' = [checkpoints EXCEPT ![a] = r.cps]
               /\ analysis' = r.analysis
               /\ outcomes' = Append(outcomes,
                      [exception |-> r.analysis.exception,
                       wrote |-> r.wrote,
                       date |-> IF r.analysis.exception = "ValueError"
                                THEN r.analysis.lookups[Len(r.analysis.lookups)].date
                                ELSE None])
               /\ pc' = IF r.analysis.exception \in Uncaught
                        THEN "crashed" ELSE "running"
       IN Ran(prepare_and_analyse_history(new_account_statement,
                         ledger[a], checkpoints[a], dry_run))
    \* the connection of the account before, no longer referenced once
    \* "connection" is bound again, is closed; this one stays open
    /\ connections' = {statements[done + 1].account_id}
    /\ done' = done + 1
    /\ UNCHANGED <<tz, statements, dry_run, again, prev_outcomes>>

\* report_savings, after the loop; process_statements returns and the last
\* connection is dropped
Report ==
    /\ pc = "running"
    /\ done = Len(statements)
    /\ pc' = "finished"
    /\ connections' = {}
    /\ UNCHANGED <<tz, ledger, checkpoints, statements, done, dry_run, analysis,
                   outcomes, again, prev_outcomes>>

\* the program has ended; nothing is kept but the databases
Exit ==
    /\ pc \in {"finished", "crashed"}
    /\ pc' = "idle"
    /\ statements' = <<>>
    /\ done' = 0
    /\ dry_run' = FALSE
    /\ analysis' = NoAnalysis
    /\ outcomes' = <<>>
    /\ again' = FALSE
    /\ prev_outcomes' = <<>>
    /\ connections' = {}
    /\ UNCHANGED <<tz, ledger, checkpoints>>

\* the program has ended and is run again on the same file, in normal mode
Rerun ==
    /\ pc \in {"finished", "crashed"}
    /\ ~dry_run
    /\ pc' = "running"
    /\ done' = 0
    /\ analysis' = NoAnalysis
    /\ outcomes' = <<>>
    /\ again' = TRUE
    /\ prev_outcomes' = outcomes
    /\ connections' = {}
    /\ UNCHANGED <<tz, ledger, checkpoints, statements, dry_run>>

Next ==
    \/ \E ofx \in OfxFiles, dry_run_mode \in BOOLEAN : Start(ofx, dry_run_mode)
    \/ ProcessAccount
    \/ Report
    \/ Exit
    \/ Rerun

Spec == Init /\ [][Next]_vars

\* the runs on files of several accounts
InitFiles ==
    /\ tz \in FilesTimeZones
    /\ ledger = [a \in Accounts |-> {}]
    /\ checkpoints = [a \in Accounts |-> {}]
    /\ pc = "idle"
    /\ statements = <<>>
    /\ done = 0
    /\ dry_run = FALSE
    /\ analysis = NoAnalysis
    /\ outcomes = <<>>
    /\ again = FALSE
    /\ prev_outcomes = <<>>
    /\ connections = {}

NextFiles ==
    \/ \E ofx \in SharedFiles, dry_run_mode \in BOOLEAN : Start(ofx, dry_run_mode)
    \/ ProcessAccount
    \/ Report
    \/ Exit
    \/ Rerun

SpecFiles == InitFiles /\ [][NextFiles]_vars

-----------------------------------------------------------------------------
(* Properties *)

\* the step of ProcessAccount in normal mode, and the statement it processes
NormalImportStep == pc = "running" /\ ~dry_run /\ done' = done + 1
Processing == statements[done + 1]

\* a normal-mode import has processed the statement Processed
NormalImportDone == done >= 1 /\ ~dry_run
Processed == statements[done]

Abs(x) == IF x < 0 THEN -x ELSE x

\* the day a row of TRANSACTIONS or of CHECKPOINTS is dated, from its DATE
\* column
Dated(row) ==
    CHOOSE d \in TransactionDates \cup EndDates : strftime_dmy(d) = row.date

RECURSIVE SumOfAmounts(_)
SumOfAmounts(rows) ==
    IF rows = {} THEN 0
    ELSE LET r == CHOOSE x \in rows : TRUE
         IN r.amount + SumOfAmounts(rows \ {r})

\* the count the health check pairs with day d: the ledger transactions the
\* program reads back as dated the day before d
ReconstructedCount(rows, d) ==
    Cardinality({r \in rows : utcfromtimestamp(r.date_epoch) = d - 1})

\* the checkpoint stored for the day of series entry e is irreconcilable
Irreconcilable(e, cps, rows) ==
    \E c \in cps :
        /\ Dated(c) = e.date
        /\ c.transactions_count >= ReconstructedCount(rows, e.date)
        /\ \/ Abs(c.balance - e.balance) > EPSILON
           \/ c.transactions_count /= ReconstructedCount(rows, e.date)

SomeIrreconcilable(series, cps, rows) ==
    \E i \in 1 .. Len(series) : Irreconcilable(series[i], cps, rows)

\* C1: a normal-mode import of the statement just imported leaves the ledger
\* and the checkpoints as the first import left them.
C1_IdempotentImport ==
    [][again => (ledger' = ledger /\ checkpoints' = checkpoints)]_vars

\* a second import of a statement has ended after a first one that wrote the
\* checkpoint of its end date, with transactions in the ledger
C1_Witness ==
    /\ again /\ pc = "finished" /\ NormalImportDone
    /\ analysis.reconstructed
    /\ prev_outcomes[1].wrote

\* C2: after a normal-mode import that passed the health check and wrote the
\* checkpoint of its end date, a second import of the same statement does not
\* fail the health check.
C2_RerunPasses ==
    (/\ again /\ NormalImportDone
     /\ done <= Len(prev_outcomes)
     /\ prev_outcomes[done].exception = ""
     /\ prev_outcomes[done].wrote)
        => outcomes[done].exception /= "ValueError"

\* C3: a stored transaction row never changes and never leaves the ledger,
\* there is one row per id, and a merge stores, for each id of the statement
\* that the ledger lacks, the row of that statement's transaction.
C3_FirstWriteWins ==
    [][\A a \in Accounts :
          /\ ledger[a] \subseteq ledger'[a]
          /\ \A r, q \in ledger'[a] : r.id = q.id => r = q
          /\ \A r \in ledger'[a] \ ledger[a] :
                /\ NormalImportStep
                /\ Processing.account_id = a
                /\ \E op \in {OperationsInOrder(Processing.operations)[i] :
                                i \in 1 .. Len(OperationsInOrder(Processing.operations))} :
                      /\ r.id = op.id /\ Dated(r) = op.date
                      /\ r.label = op.label /\ r.amount = op.value
          /\ (NormalImportStep /\ Processing.account_id = a) =>
                \A i \in 1 .. Len(OperationsInOrder(Processing.operations)) :
                    \E r \in ledger'[a] :
                        r.id = OperationsInOrder(Processing.operations)[i].id
      ]_vars

\* an import has carried an id the ledger already held, with another date or
\* amount, and the ledger holds the older row
C3_Witness ==
    /\ NormalImportDone
    /\ \E i \in 1 .. Len(OperationsInOrder(Processed.operations)) :
          \E r \in ledger[Processed.account_id] :
              LET op == OperationsInOrder(Processed.operations)[i]
              IN r.id = op.id /\ (Dated(r) /= op.date \/ r.amount /= op.value)

\* C4: there is one checkpoint per date, and a stored checkpoint never
\* changes and never leaves the store.
C4_CheckpointsAppendOnly ==
    [][\A a \in Accounts :
          /\ checkpoints[a] \subseteq checkpoints'[a]
          /\ \A c, d \in checkpoints'[a] : c.date = d.date => c = d
      ]_vars

\* update_checkpoints has run on a date that had a checkpoint of another
\* transaction count than the one it was called with
C4_Witness ==
    /\ NormalImportDone
    /\ outcomes[done].exception = ""
    /\ ~outcomes[done].wrote
    /\ \E c \in checkpoints[Processed.account_id] :
          /\ Dated(c) = Processed.last_date
          /\ c.transactions_count /=
                Cardinality({r \in ledger[Processed.account_id] :
                                Dated(r) = Processed.last_date})

\* C5: when a date of the reconstructed series has an irreconcilable
\* checkpoint, the import raises the failure and leaves the checkpoints as
\* they were.
C5_IrreconcilableRaises ==
    [][(/\ NormalImportStep
        /\ SomeIrreconcilable(analysis'.balance_over_time,
                              checkpoints[Processing.account_id],
                              ledger'[Processing.account_id]))
          => (/\ analysis'.exception = "ValueError"
              /\ checkpoints' = checkpoints)]_vars

\* an import has failed the health check
C5_Witness ==
    /\ NormalImportDone
    /\ outcomes[done].exception = "ValueError"
    /\ Len(analysis.lookups) >= 2

\* C6: after a normal-mode import with transactions in the ledger and no
\* irreconcilable date, the end date has a checkpoint; if it had none before,
\* it is (end balance, number of ledger transactions of the end date).
C6_CheckpointAfterSuccess ==
    [][(/\ NormalImportStep
        /\ ledger'[Processing.account_id] /= {}
        /\ ~SomeIrreconcilable(analysis'.balance_over_time,
                               checkpoints[Processing.account_id],
                               ledger'[Processing.account_id]))
          => \E c \in checkpoints'[Processing.account_id] :
                /\ Dated(c) = Processing.last_date
                /\ (\A b \in checkpoints[Processing.account_id] :
                        Dated(b) /= Processing.last_date)
                      => /\ c.balance = Processing.last_balance
                         /\ c.transactions_count =
                               Cardinality({r \in ledger'[Processing.account_id] :
                                               Dated(r) = Processing.last_date})
      ]_vars

\* C7: the balance of every day D of the series is the end balance minus the
\* amounts of the ledger transactions dated after D, up to the end date.
C7_BalanceAfterDay ==
    (NormalImportDone /\ analysis.reconstructed) =>
        \A i \in 1 .. Len(analysis.balance_over_time) :
            LET e == analysis.balance_over_time[i]
            IN e.balance = Processed.last_balance
                   - SumOfAmounts({r \in ledger[Processed.account_id] :
                                      /\ e.date < Dated(r)
                                      /\ Dated(r) <= Processed.last_date})

\* C8: when the end date D carries one transaction, of amount A, the series
\* has the day before D, with the end balance minus A.
C8_DayBeforeEnd ==
    (NormalImportDone /\ analysis.reconstructed) =>
        \A r \in ledger[Processed.account_id] :
            (/\ Dated(r) = Processed.last_date
             /\ \A q \in ledger[Processed.account_id] :
                    Dated(q) = Processed.last_date => q = r)
              => \E i \in 1 .. Len(analysis.balance_over_time) :
                    /\ analysis.balance_over_time[i].date = Processed.last_date - 1
                    /\ analysis.balance_over_time[i].balance
                           = Processed.last_balance - r.amount

\* C9: the days of the series are the days from the earliest transaction date
\* of the ledger to the end date, each once.
C9_DenseSeries ==
    (NormalImportDone /\ analysis.reconstructed) =>
        LET series == analysis.balance_over_time
            rows == ledger[Processed.account_id]
        IN /\ {series[i].date : i \in 1 .. Len(series)}
                 = {d \in 1 .. Processed.last_date :
                       \E r \in rows : Dated(r) <= d}
           /\ \A i, j \in 1 .. Len(series) :
                 series[i].date = series[j].date => i = j

\* C10: a look-up of the health check is consistent when the day has no
\* checkpoint; with a checkpoint (cb, cc), reconstructed balance rb and count
\* rc, it is consistent exactly when (|cb - rb| <= epsilon and cc = rc) or
\* cc < rc.
C10_CheckDecision ==
    [][NormalImportStep =>
          \A i \in 1 .. Len(analysis'.lookups) :
              LET l == analysis'.lookups[i]
                  stored == {c \in checkpoints[Processing.account_id] :
                                Dated(c) = l.date}
              IN l.coherent =
                    (\/ stored = {}
                     \/ \E c \in stored :
                           \/ /\ Abs(c.balance - l.balance) <= EPSILON
                              /\ c.transactions_count = l.transaction_count
                           \/ c.transactions_count < l.transaction_count)
      ]_vars

\* a health check has found a checkpoint of the same count and another
\* balance, after one accepted for its smaller count
C10_Witness ==
    /\ NormalImportDone
    /\ \E i, j \in 1 .. Len(analysis.lookups) :
          /\ analysis.lookups[i].found
          /\ ~analysis.lookups[i].coherent
          /\ analysis.lookups[i].checked_transaction_count
                = analysis.lookups[i].transaction_count
          /\ analysis.lookups[j].found
          /\ analysis.lookups[j].coherent
          /\ analysis.lookups[j].checked_transaction_count
                < analysis.lookups[j].transaction_count

\* C11: when a normal-mode import adds transactions dated D to a ledger whose
\* day D has a checkpoint of a smaller transaction count than D then has, the
\* health check of that import does not find D incoherent.
C11_BackfillAccepted ==
    [][NormalImportStep =>
          \A c \in checkpoints[Processing.account_id] :
              LET before == {r \in ledger[Processing.account_id] :
                                Dated(r) = Dated(c)}
                  after == {r \in ledger'[Processing.account_id] :
                               Dated(r) = Dated(c)}
              IN (/\ before \subseteq after /\ before /= after
                  /\ Cardinality(after) > c.transactions_count)
                     => \A i \in 1 .. Len(analysis'.lookups) :
                            analysis'.lookups[i].date = Dated(c)
                                => analysis'.lookups[i].coherent]_vars

\* C12: when the health check of one account of a run raises, the run goes on
\* with the accounts after it, and the stores of the other accounts are as
\* they were before the failing account was processed.
C12_FailureIsolated ==
    [][(NormalImportStep /\ outcomes'[done'].exception = "ValueError")
          => /\ pc' = "running"
             /\ \A a \in Accounts \ {Processing.account_id} :
                    /\ ledger'[a] = ledger[a]
                    /\ checkpoints'[a] = checkpoints[a]]_vars

\* the second account of a run has been merged, reconstructed, checked and
\* given a checkpoint after the health check of the first one raised
C12_Witness ==
    /\ NormalImportDone /\ done = 2
    /\ outcomes[1].exception = "ValueError"
    /\ analysis.reconstructed
    /\ outcomes[2].exception = "" /\ outcomes[2].wrote

\* C13: whatever the processing of an account raises, the run goes on with
\* the accounts after it.
C13_NoFailureCrosses ==
    [][(pc = "running" /\ done' = done + 1 /\ done' < Len(statements))
          => pc' = "running"]_vars

\* C14: the connection of an account is closed once the processing of that
\* account has ended: between the processing of two accounts, after the last
\* one, and after an exception, no connection is open.
C14_ConnectionsClosed == connections = {}

\* C15: the processing of a statement in dry-run mode leaves the ledger and
\* the checkpoints as they were, and neither reconstructs the balance nor
\* looks up a checkpoint.
C15_DryRunFrame ==
    [][(pc = "running" /\ dry_run /\ done' = done + 1)
          => /\ ledger' = ledger
             /\ checkpoints' = checkpoints
             /\ ~analysis'.reconstructed
             /\ analysis'.balance_over_time = <<>>
             /\ analysis'.lookups = <<>>]_vars

\* a dry run has processed a statement with a transaction, over a store that
\* holds transactions and a checkpoint
C15_Witness ==
    /\ dry_run /\ done >= 1
    /\ Len(Processed.operations) > 0
    /\ ledger[Processed.account_id] /= {}
    /\ checkpoints[Processed.account_id] /= {}

\* C16: when write_operations_in_database raises at a transaction of the
\* statement, the ledger after the processing of the account is the ledger
\* before it.
C16_MergeAllOrNothing ==
    [][(NormalImportStep /\ outcomes'[done'].exception = "OperationalError")
          => ledger' = ledger]_vars

\* the merge of a statement has raised at its second transaction, after the
\* insertion of a first one whose id the ledger did not hold
C16_Witness ==
    /\ NormalImportDone
    /\ outcomes[done].exception = "OperationalError"
    /\ LET ops == OperationsInOrder(Processed.operations)
       IN /\ Len(ops) = 2
          /\ ~SyntaxError(ops[1]) /\ SyntaxError(ops[2])
          /\ \A r \in ledger[Processed.account_id] : r.id /= ops[1].id

\* the first days of the months
MonthStarts == {DaysBefore(m) + 1 : m \in 1 .. 12}

\* C17: the grid of compute_balance_compared has rows of 32 slots; the
\* balance of a series entry is in the row numbered by the calendar months
\* from the month of its date to the month of the end date, at the column of
\* its day of the month; every other slot, column 0 included, holds nothing.
C17_GridAlignment ==
    (NormalImportDone /\ analysis.balance_compared /= <<>>) =>
        LET grid == analysis.balance_compared
            series == analysis.balance_over_time
            last == Processed.last_date
            Row(d) == Cardinality({f \in MonthStarts : d < f /\ f <= last})
            Column(d) ==
                d - (CHOOSE f \in MonthStarts :
                        f <= d /\ \A g \in MonthStarts : g <= d => g <= f) + 1
            at == [i \in 1 .. Len(series) |->
                      <<Row(series[i].date), Column(series[i].date)>>]
        IN /\ \A m \in 1 .. Len(grid) : Len(grid[m]) = 32
           /\ \A i \in 1 .. Len(series) :
                 /\ at[i][1] + 1 <= Len(grid)
                 /\ grid[at[i][1] + 1][at[i][2] + 1] = {series[i].balance}
           /\ \A m \in 1 .. Len(grid) :
                 /\ grid[m][1] = {}
                 /\ \A k \in 1 .. 32 :
                        grid[m][k] /= {} =>
                            \E i \in 1 .. Len(series) : at[i] = <<m - 1, k - 1>>

\* a grid of two rows: the series has days in the month of the end date and
\* in the month before
C17_Witness ==
    /\ NormalImportDone
    /\ Len(analysis.balance_compared) = 2
    /\ \E k \in 1 .. 32 : analysis.balance_compared[1][k] /= {}
    /\ \E k \in 1 .. 32 : analysis.balance_compared[2][k] /= {}

\* C18: when the health check of a normal-mode import has raised, the health
\* check of a second import of the same statement, run straight after it,
\* raises at the same date, and the checkpoints stay as they were.
C18_RetryReproduces ==
    [][(/\ again /\ NormalImportStep
        /\ done' <= Len(prev_outcomes)
        /\ prev_outcomes[done'].exception = "ValueError")
          => /\ outcomes'[done'].exception = "ValueError"
             /\ outcomes'[done'].date = prev_outcomes[done'].date
             /\ checkpoints' = checkpoints]_vars

\* the health check has raised at the end date in the import of a statement
\* whose transaction the ledger holds, and again in the second import of it
C18_Witness ==
    /\ again /\ NormalImportDone
    /\ done <= Len(prev_outcomes)
    /\ prev_outcomes[done].exception = "ValueError"
    /\ outcomes[done].exception = "ValueError"
    /\ outcomes[done].date = Processed.last_date
    /\ \E r \in ledger[Processed.account_id] :
           \E i \in 1 .. Len(OperationsInOrder(Processed.operations)) :
               r.id = OperationsInOrder(Processed.operations)[i].id

\* C19: the health check looks the days of the series up from the end date
\* downwards; when it raises, the day it raises at is the latest day of the
\* series whose checkpoint is irreconcilable, it reports the balance of the
\* series and the balance of the checkpoint of that day, and it has looked up
\* no earlier day.
C19_StopsAtLatestMismatch ==
    (NormalImportDone /\ analysis.reconstructed) =>
        LET series == analysis.balance_over_time
            lookups == analysis.lookups
            n == Len(lookups)
            cps == checkpoints[Processed.account_id]
            rows == ledger[Processed.account_id]
        IN /\ n <= Len(series)
           /\ \A i \in 1 .. n :
                 /\ lookups[i].date = Processed.last_date - (i - 1)
                 /\ lookups[i].date = series[i].date
                 /\ lookups[i].balance = series[i].balance
           /\ analysis.exception = "ValueError" =>
                 /\ n >= 1
                 /\ Irreconcilable(series[n], cps, rows)
                 /\ \A i \in 1 .. Len(series) :
                        Irreconcilable(series[i], cps, rows)
                            => series[i].date <= lookups[n].date
                 /\ \E c \in cps : /\ Dated(c) = lookups[n].date
                                    /\ lookups[n].checked_balance = c.balance
                 /\ \A i \in 1 .. n : lookups[i].date >= lookups[n].date

\* the health check has raised at a day before the end date, with a day of
\* the series left that it did not look up
C19_Witness ==
    /\ NormalImportDone /\ analysis.reconstructed
    /\ analysis.exception = "ValueError"
    /\ Len(analysis.lookups) >= 2
    /\ Len(analysis.lookups) < Len(analysis.balance_over_time)

\* C20: of what compute_balance_evolution returns, min_balance and
\* max_balance are the least and the greatest balance of the series, and
\* min_balance_date and max_balance_date are the first days of the series, in
\* the order of the walk, that have those balances.
C20_ExtremaOfSeries ==
    (/\ NormalImportDone /\ analysis.reconstructed
     /\ analysis.exception /= "ValueError"
     /\ analysis.balance_over_time /= <<>>) =>
        LET series == analysis.balance_over_time
            First(b) == CHOOSE i \in 1 .. Len(series) :
                            /\ series[i].balance = b
                            /\ \A j \in 1 .. (i - 1) : series[j].balance /= b
        IN /\ \E i \in 1 .. Len(series) : series[i].balance = analysis.min_balance
           /\ \E i \in 1 .. Len(series) : series[i].balance = analysis.max_balance
           /\ \A i \in 1 .. Len(series) :
                 /\ analysis.min_balance <= series[i].balance
                 /\ series[i].balance <= analysis.max_balance
           /\ analysis.min_balance_date = series[First(analysis.min_balance)].date
           /\ analysis.max_balance_date = series[First(analysis.max_balance)].date

\* C21: the processing of a statement in dry-run mode ends without an
\* exception, whether or not the ledger holds the ids of the statement's
\* transactions (those it does not hold are the ones reported as new).
C21_DryRunTerminates ==
    [][(pc = "running" /\ dry_run /\ done' = done + 1)
          => /\ outcomes'[done'].exception = ""
             /\ pc' = "running"]_vars

\* C22: after a normal-mode import whose health check raised, the ledger
\* holds the rows it held before and a row for every transaction of the
\* statement, a transaction of a new id with the data of the statement, and
\* the checkpoints are those of before.
C22_MergeKeptOnFailure ==
    [][(NormalImportStep /\ outcomes'[done'].exception = "ValueError")
          => LET a == Processing.account_id
                 ops == OperationsInOrder(Processing.operations)
             IN /\ ledger[a] \subseteq ledger'[a]
                /\ \A i \in 1 .. Len(ops) :
                       \E r \in ledger'[a] :
                           /\ r.id = ops[i].id
                           /\ (\A q \in ledger[a] : q.id /= ops[i].id)
                                 => /\ Dated(r) = ops[i].date
                                    /\ r.label = ops[i].label
                                    /\ r.amount = ops[i].value
                /\ \A r \in ledger'[a] \ ledger[a] :
                       \E i \in 1 .. Len(ops) : r.id = ops[i].id
                /\ checkpoints' = checkpoints]_vars

\* the health check has raised in the first import of a statement with a
\* transaction, which the ledger holds, over a store with a checkpoint
C22_Witness ==
    /\ NormalImportDone /\ ~again
    /\ outcomes[done].exception = "ValueError"
    /\ Len(Processed.operations) > 0
    /\ \A i \in 1 .. Len(OperationsInOrder(Processed.operations)) :
           \E r \in ledger[Processed.account_id] :
               r.id = OperationsInOrder(Processed.operations)[i].id
    /\ checkpoints[Processed.account_id] /= {}

\* C23: a normal-mode import whose merge leaves the ledger empty neither
\* reconstructs the balance nor looks up a checkpoint, raises nothing, and
\* adds the checkpoint (end date, end balance, 0 transactions) when the end
\* date had no checkpoint; it leaves the checkpoints alone when it had one.
C23_EmptyLedgerCheckpoint ==
    [][(/\ NormalImportStep
        /\ Len(Processing.operations) = 0
        /\ ledger'[Processing.account_id] = {})
          => LET cps == checkpoints[Processing.account_id]
                 added == checkpoints'[Processing.account_id] \ cps
             IN /\ ~analysis'.reconstructed
                /\ analysis'.balance_over_time = <<>>
                /\ analysis'.lookups = <<>>
                /\ outcomes'[done'].exception = ""
                /\ pc' = "running"
                /\ cps \subseteq checkpoints'[Processing.account_id]
                /\ IF \E c \in cps : Dated(c) = Processing.last_date
                   THEN added = {}
                   ELSE /\ Cardinality(added) = 1
                        /\ \A c \in added :
                               /\ Dated(c) = Processing.last_date
                               /\ c.date_epoch = strftime_s(Processing.last_date)
                               /\ c.balance = Processing.last_balance
                               /\ c.transactions_count = 0]_vars

\* an import of a statement without transactions has left the ledger empty
\* and written the checkpoint of its end date, beside an earlier checkpoint
C23_Witness ==
    /\ NormalImportDone
    /\ ledger[Processed.account_id] = {}
    /\ outcomes[done].wrote
    /\ Cardinality(checkpoints[Processed.account_id]) = 2

\* C24: the day read_transactions_from_database gives a transaction of the
\* ledger is the day write_operations_in_database wrote it with, in every
\* time zone; so the days of the re-read ledger are the days the end date
\* and the checkpoints are keyed by.
C24_DateRoundTrip ==
    \A a \in Accounts :
        \A r \in ledger[a] :
            /\ utcfromtimestamp(r.date_epoch) = Dated(r)
            /\ strftime_s(utcfromtimestamp(r.date_epoch)) = r.date_epoch

=============================================================================
